---- MODULE Spec2Model ----
(***************************************************************************)
(* Room segmentation (extract_rooms) followed by adjacency detection       *)
(* (detect_adjacency, directed-scan variant) on one floor-plan label grid, *)
(* composed the way debug_topology.main composes them.                     *)
(*                                                                         *)
(* A pixel is a pair <<x, y>>, x the row and y the column, both 0-based as *)
(* in the source.  A grid is a function from the pixels of the image to    *)
(* integers.                                                               *)
(***************************************************************************)
EXTENDS Integers, Sequences, FiniteSets, TLC

VARIABLES
    h, w,                  \* wall_array.shape
    wall_label_array,      \* the category image (wall_svg.png as palette indices)
    icon_array,            \* 0 none, 1 door, 2 window
    pc,                    \* position in the pipeline
    \* ---- extract_rooms
    region_id_map,
    current_id,
    scan,                  \* row-major index i*w + j of the outer double loop
    stack,
    rooms,
    \* ---- detect_adjacency: door / window pass
    edges,
    icon_val,
    labeled_icons,         \* the components of the current icon mask, in label order
    lbl,
    \* ---- detect_adjacency: wall pass
    region_ids,
    visited_wall,
    segment_label_map,
    rix,                   \* index into region_ids
    boundary_coords,
    bix,                   \* index into boundary_coords
    dix,                   \* index into the four directions
    t,
    wall_pixels_segment,
    encountered_room,
    last_wall_pixel,
    oix,                   \* index into orient_dirs
    cur,                   \* (curx, cury)
    \* ---- detect_adjacency, breadth-first variant: wall pass
    dq,
    wall_segment_pixels,
    \* ---- history (not program state): what each pass has done so far
    icon_log,              \* one record per icon component processed
    seg_log,               \* one record per resolved wall segment processed
    owner,                 \* seg_label -> index in seg_log of the segment its map entry stands for
    starts,                \* the wall pixel each directed scan of the call started at
    picks,                 \* the ends of the worklist the flood fill has taken pixels from
    \* ---- the caller: the pipeline is run twice on the same images
    run,                   \* 1 or 2
    first                  \* what the first run returned

extractVars == <<region_id_map, current_id, scan, stack, rooms>>
iconVars    == <<icon_val, labeled_icons, lbl>>
loopVars    == <<rix, boundary_coords, bix, dix>>
scanVars    == <<t, wall_pixels_segment, encountered_room, last_wall_pixel, oix, cur>>
wallVars    == <<region_ids, visited_wall, segment_label_map>>
histVars    == <<icon_log, seg_log, owner, starts, picks>>
callVars    == <<run, first>>
bfsVars     == <<dq, wall_segment_pixels>>
inputVars   == <<h, w, wall_label_array, icon_array, callVars>>
vars == <<inputVars, bfsVars, pc, extractVars, edges, iconVars, wallVars, loopVars, scanVars, histVars>>

-----------------------------------------------------------------------------
(* Grids and pixels *)

Pixels(hh, ww) == (0 .. hh - 1) \X (0 .. ww - 1)

AllPixels == Pixels(h, w)

InBounds(p) == p[1] >= 0 /\ p[1] < h /\ p[2] >= 0 /\ p[2] < w

Plus(p, d) == <<p[1] + d[1], p[2] + d[2]>>

\* Row-major (raster) order, the order of range(h) x range(w) and of np.nonzero.
Less(p, q) == p[1] < q[1] \/ (p[1] = q[1] /\ p[2] < q[2])

MinPix(S) == CHOOSE p \in S : \A q \in S : p = q \/ Less(p, q)

RECURSIVE SortedPixels(_)
SortedPixels(S) ==
    IF S = {} THEN <<>>
    ELSE LET p == MinPix(S) IN <<p>> \o SortedPixels(S \ {p})

Range(s) == {s[i] : i \in 1 .. Len(s)}

RECURSIVE SortedInts(_)
SortedInts(S) ==
    IF S = {} THEN <<>>
    ELSE LET m == CHOOSE x \in S : \A y \in S : x <= y
         IN <<m>> \o SortedInts(S \ {m})

\* The cross-shaped structuring element without its centre.
Cross == {<<-1, 0>>, <<1, 0>>, <<0, -1>>, <<0, 1>>}

Adj4(p, q) == \E d \in Cross : q = Plus(p, d)

NoPixel == <<-1, -1>>

-----------------------------------------------------------------------------
(* extract_rooms *)

\* Slip: the railing category 8 is left out of the set.
exclude_without_railing == {0, 1, 2, 50}

exclude_indices_rooms == {0, 1, 2, 8, 50}

\* Slip: the exclusion set of the wall pass, which leaves the wall label out.
EligibleWallsToo(p) == wall_label_array[p] \notin {0, 1, 8, 50}

\* mask[i, j] == 1
Eligible(p) == wall_label_array[p] \notin exclude_indices_rooms

PixelAt(k) == <<k \div w, k % w>>

IndexOf(p) == p[1] * w + p[2]

\* The pixels the outer loop has still to look at that start a new region.
Seeds == {p \in AllPixels : IndexOf(p) >= scan /\ Eligible(p) /\ region_id_map[p] = 0}

\* for i, j: the next pixel with mask == 1 and no id starts region current_id + 1.
SeedRegion ==
    /\ pc = "scan"
    /\ Seeds # {}
    /\ LET p == MinPix(Seeds) IN
        /\ current_id' = current_id + 1
        /\ stack' = <<p>>
        /\ region_id_map' = [region_id_map EXCEPT ![p] = current_id + 1]
        /\ scan' = IndexOf(p)
    /\ pc' = "fill"
    /\ UNCHANGED <<inputVars, bfsVars, rooms, edges, iconVars, wallVars, loopVars, scanVars, histVars>>

\* The neighbours of (x, y) in the order the source visits them.
fill_dirs == <<<<-1, 0>>, <<1, 0>>, <<0, -1>>, <<0, 1>>>>

\* Slip: the last of the four directions is left out.
RECURSIVE PushedThree(_, _)
PushedThree(p, k) ==
    IF k > Len(fill_dirs) - 1 THEN <<>>
    ELSE LET n == Plus(p, fill_dirs[k]) IN
         IF InBounds(n) /\ wall_label_array[n] \notin exclude_indices_rooms
                        /\ region_id_map[n] = 0
         THEN <<n>> \o PushedThree(p, k + 1)
         ELSE PushedThree(p, k + 1)

\* Slip: a neighbour is pushed whether or not it has an id.
RECURSIVE PushedAgain(_, _)
PushedAgain(p, k) ==
    IF k > Len(fill_dirs) THEN <<>>
    ELSE LET n == Plus(p, fill_dirs[k]) IN
         IF InBounds(n) /\ Eligible(n)
         THEN <<n>> \o PushedAgain(p, k + 1)
         ELSE PushedAgain(p, k + 1)

\* The neighbours that get the id and are pushed, in push order.
RECURSIVE Pushed(_, _)
Pushed(p, k) ==
    IF k > Len(fill_dirs) THEN <<>>
    ELSE LET n == Plus(p, fill_dirs[k]) IN
         IF InBounds(n) /\ Eligible(n) /\ region_id_map[n] = 0
         THEN <<n>> \o Pushed(p, k + 1)
         ELSE Pushed(p, k + 1)

\* One iteration of "while stack": stack.pop() and the four neighbour checks.
PopPixel ==
    /\ pc = "fill"
    /\ stack # <<>>
    /\ LET p    == stack[Len(stack)]
           rest == SubSeq(stack, 1, Len(stack) - 1)
           new  == Pushed(p, 1)
       IN /\ stack' = rest \o new
          /\ region_id_map' = [q \in AllPixels |->
                                 IF q \in Range(new) THEN current_id ELSE region_id_map[q]]
          /\ IF rest \o new = <<>>
             THEN pc' = "scan" /\ scan' = scan + 1
             ELSE pc' = "fill" /\ scan' = scan
    /\ UNCHANGED <<inputVars, bfsVars, current_id, rooms, edges, iconVars, wallVars, loopVars,
                   scanVars, histVars>>

\* Slip: taking the k-th pending pixel drops the pixels pushed after it.
RemainingBefore(k) == SubSeq(stack, 1, k - 1)

\* The worklist without its k-th pixel.
Remaining(k) == SubSeq(stack, 1, k - 1) \o SubSeq(stack, k + 1, Len(stack))

\* Which end of the worklist position k is, when there is a choice.
PickOf(k) ==
    IF Len(stack) < 2 THEN {}
    ELSE IF k = Len(stack) THEN {"last"}
    ELSE IF k = 1 THEN {"first"}
    ELSE {"inner"}

\* One iteration of "while stack" with the pop replaced by the removal of the
\* k-th pending pixel: k = Len(stack) is the stack of the source, k = 1 a queue.
PopAt(k) ==
    /\ pc = "fill"
    /\ k \in 1 .. Len(stack)
    /\ LET p    == stack[k]
           rest == Remaining(k)
           new  == Pushed(p, 1)
       IN /\ stack' = rest \o new
          /\ region_id_map' = [q \in AllPixels |->
                                 IF q \in Range(new) THEN current_id ELSE region_id_map[q]]
          /\ IF rest \o new = <<>>
             THEN pc' = "scan" /\ scan' = scan + 1
             ELSE pc' = "fill" /\ scan' = scan
    /\ picks' = picks \cup PickOf(k)
    /\ UNCHANGED <<inputVars, bfsVars, current_id, rooms, edges, iconVars, wallVars, loopVars,
                   scanVars, icon_log, seg_log, owner, starts>>

\* The worklist emptied in any order.
PopAny == \E k \in 1 .. Len(stack) : PopAt(k)

category_to_room ==
    [c \in {3, 4, 5, 6, 7, 9, 10} |->
        CASE c = 3 -> "Kitchen"
          [] c = 4 -> "Living Room"
          [] c = 5 -> "Bedroom"
          [] c = 6 -> "Bath"
          [] c = 7 -> "Hallway"
          [] c = 9 -> "Storage"
          [] c = 10 -> "Garage"]

\* Slip: the mask takes the regions up to rid.
RegionPixelsUpTo(rid) == {p \in AllPixels : region_id_map[p] >= 1 /\ region_id_map[p] <= rid}

\* region_mask = (region_id_map == rid)
RegionPixels(rid) == {p \in AllPixels : region_id_map[p] = rid}

CountOf(rid, val) == Cardinality({p \in RegionPixels(rid) : wall_label_array[p] = val})

\* Slip: among the values with the highest count the last one is taken.
MainCategoryLast(rid) ==
    LET vals     == {wall_label_array[p] : p \in RegionPixels(rid)}
        filtered == {v \in vals : v \notin exclude_indices_rooms}
    IN IF filtered = {} THEN 0
       ELSE CHOOSE v \in filtered :
              \A u \in filtered :
                 \/ CountOf(rid, u) < CountOf(rid, v)
                 \/ (CountOf(rid, u) = CountOf(rid, v) /\ v >= u)

\* max(filtered, key=count)[0] over the ascending values of np.unique: the
\* smallest value among those with the highest count; 0 stands for None.
MainCategory(rid) ==
    LET vals     == {wall_label_array[p] : p \in RegionPixels(rid)}
        filtered == {v \in vals : v \notin exclude_indices_rooms}
    IN IF filtered = {} THEN 0
       ELSE CHOOSE v \in filtered :
              \A u \in filtered :
                 \/ CountOf(rid, u) < CountOf(rid, v)
                 \/ (CountOf(rid, u) = CountOf(rid, v) /\ v <= u)

RoomType(rid) ==
    LET main_category == MainCategory(rid) IN
    IF main_category = 0 THEN "Other"
    ELSE IF main_category \in DOMAIN category_to_room THEN category_to_room[main_category]
    ELSE "Other"

\* The outer loop is over; build the rooms list for rid in 1 .. num_rooms.
BuildRooms ==
    /\ pc = "scan"
    /\ Seeds = {}
    /\ rooms' = [rid \in 1 .. current_id |->
                   [id |-> rid,
                    area |-> Cardinality(RegionPixels(rid)),
                    room_type |-> RoomType(rid)]]
    /\ pc' = "label_icons"
    /\ UNCHANGED <<inputVars, bfsVars, region_id_map, current_id, scan, stack, edges, iconVars,
                   wallVars, loopVars, scanVars, histVars>>

-----------------------------------------------------------------------------
(* detect_adjacency: the edge map *)

\* wall_array = (wall_label_array == 2), as the caller derives it.
IsWall(p) == wall_label_array[p] = 2

NewEdge ==
    [connection_types |-> {}, num_door_window |-> 0, area_door_window |-> 0,
     num_wall |-> 0, area_wall |-> 0]

NoEdges == <<>>

\* Slip: the comparison is turned around.
EdgeKeyFlipped(a, b) == IF a > b THEN <<a, b>> ELSE <<b, a>>

\* key = (a, b) if a < b else (b, a)
EdgeKey(a, b) == IF a < b THEN <<a, b>> ELSE <<b, a>>

\* ensure_edge_entry: the map with an entry for the pair.
EnsureEdgeEntry(e, a, b) ==
    LET key == EdgeKey(a, b) IN
    IF key \in DOMAIN e THEN e
    ELSE [k \in DOMAIN e \cup {key} |-> IF k = key THEN NewEdge ELSE e[k]]

RemoveEdge(e, key) == [k \in DOMAIN e \ {key} |-> e[k]]

-----------------------------------------------------------------------------
(* detect_adjacency: door and window pass *)

\* Slip: the two icon values are taken the other way round.
IconTypeSwapped(v) == IF v = 1 THEN "window" ELSE "door"

\* for icon_val, icon_type in [(1, 'door'), (2, 'window')]
IconType(v) == IF v = 1 THEN "door" ELSE "window"

\* The pixels of the icon image, which is read from a file of its own.
IconPixels == DOMAIN icon_array

\* The icon image has the shape of the label image.
ShapesAgree == IconPixels = AllPixels

IconMask(v) == {p \in IconPixels : icon_array[p] = v}

\* The 4-connected component of M that holds the pixels S.
RECURSIVE Grow(_, _)
Grow(S, M) ==
    LET N == S \cup {q \in M : \E p \in S : Adj4(p, q)}
    IN IF N = S THEN S ELSE Grow(N, M)

\* scipy.ndimage.label with the cross structure: the components of M,
\* numbered in raster order of their first pixel.
RECURSIVE Label(_)
Label(M) ==
    IF M = {} THEN <<>>
    ELSE LET C == Grow({MinPix(M)}, M) IN <<C>> \o Label(M \ C)

\* dilated & ~comp_mask (border_value = 0: nothing outside the image).
NeighborArea(comp) == {q \in IconPixels \ comp : \E p \in comp : Adj4(p, q)}

\* np.unique(region_id_map[neighbor_area]) restricted to ids > 0.
NeighborIds(comp) == {region_id_map[q] : q \in NeighborArea(comp)} \ {0}

\* icon_mask = (icon_array == icon_val); labeled_icons, num_icons = label(...)
LabelIcons ==
    /\ pc = "label_icons"
    /\ labeled_icons' = Label(IconMask(icon_val))
    /\ lbl' = 1
    /\ pc' = "icon_comp"
    /\ UNCHANGED <<inputVars, bfsVars, extractVars, edges, icon_val, wallVars, loopVars, scanVars,
                   histVars>>

\* Slip: two ids or more are taken for a pair, as the first variant did
\* (size < 2: continue, then the first two ids).
IconEdgesAtLeastTwo(e, comp, type) ==
    LET ids == SortedInts(NeighborIds(comp)) IN
    IF Len(ids) >= 2
    THEN LET key == EdgeKey(ids[1], ids[2])
             e1  == EnsureEdgeEntry(e, ids[1], ids[2])
         IN [e1 EXCEPT ![key] =
               [@ EXCEPT !.connection_types = @ \cup {type},
                         !.num_door_window = @ + 1,
                         !.area_door_window = @ + Cardinality(comp)]]
    ELSE e

\* Slip: the opening is not counted.
IconEdgesTypeOnly(e, comp, type) ==
    LET ids == SortedInts(NeighborIds(comp)) IN
    IF Len(ids) = 2
    THEN LET key == EdgeKey(ids[1], ids[2])
             e1  == EnsureEdgeEntry(e, ids[1], ids[2])
         IN [e1 EXCEPT ![key] =
               [@ EXCEPT !.connection_types = @ \cup {type},
                         !.area_door_window = @ + Cardinality(comp)]]
    ELSE e

\* The edge map after one component of the given type has been looked at.
IconEdges(e, comp, type) ==
    LET ids == SortedInts(NeighborIds(comp)) IN
    IF Len(ids) = 2
    THEN LET key == EdgeKey(ids[1], ids[2])
             e1  == EnsureEdgeEntry(e, ids[1], ids[2])
         IN [e1 EXCEPT ![key] =
               [@ EXCEPT !.connection_types = @ \cup {type},
                         !.num_door_window = @ + 1,
                         !.area_door_window = @ + Cardinality(comp)]]
    ELSE e

\* for lbl in range(1, num_icons + 1): one component.
IconComponent ==
    /\ pc = "icon_comp"
    /\ lbl <= Len(labeled_icons)
    /\ ShapesAgree
    /\ LET comp == labeled_icons[lbl] IN
        /\ edges' = IconEdges(edges, comp, IconType(icon_val))
        /\ icon_log' = Append(icon_log,
                              [type |-> IconType(icon_val), comp |-> comp,
                               ids |-> NeighborIds(comp)])
    /\ lbl' = lbl + 1
    /\ UNCHANGED <<inputVars, bfsVars, pc, extractVars, icon_val, labeled_icons, wallVars, loopVars,
                   scanVars, seg_log, owner, starts, picks>>

\* region_id_map[neighbor_area] with a mask of another shape: numpy raises
\* IndexError, and the call ends without a result.
IconShapeError ==
    /\ pc = "icon_comp"
    /\ lbl <= Len(labeled_icons)
    /\ ~ShapesAgree
    /\ pc' = "error"
    /\ UNCHANGED <<inputVars, bfsVars, extractVars, edges, iconVars, wallVars, loopVars, scanVars,
                   histVars>>

\* The door components are done: go on with the windows.
NextIconValue ==
    /\ pc = "icon_comp"
    /\ lbl > Len(labeled_icons)
    /\ icon_val = 1
    /\ icon_val' = 2
    /\ pc' = "label_icons"
    /\ UNCHANGED <<inputVars, bfsVars, extractVars, edges, labeled_icons, lbl, wallVars, loopVars,
                   scanVars, histVars>>

-----------------------------------------------------------------------------
(* detect_adjacency: wall pass *)

exclude_indices == {0, 1, 8, 50}

\* get_boundary_mask: the pixels of the room with a 4-neighbour that is not of
\* the room; what lies outside the image is not of the room (border_value = 0).
BoundaryMask(rid) ==
    {p \in AllPixels :
        /\ region_id_map[p] = rid
        /\ \E d \in Cross :
              LET q == Plus(p, d) IN ~InBounds(q) \/ region_id_map[q] # rid}

\* The window passes are done: set up the wall pass.
\* Slip: the marks are kept in an array that outlives the call.
StaleVisited == visited_wall

\* visited_wall = np.zeros_like(wall_array, dtype=bool)
FreshVisited == {}

StartWallPass ==
    /\ pc = "icon_comp"
    /\ lbl > Len(labeled_icons)
    /\ icon_val = 2
    /\ region_ids' = SortedInts({region_id_map[p] : p \in AllPixels} \ {0})
    /\ visited_wall' = FreshVisited
    /\ segment_label_map' = <<>>
    /\ rix' = 0
    /\ boundary_coords' = <<>>
    /\ bix' = 1
    /\ dix' = 1
    /\ pc' = "idle"
    /\ UNCHANGED <<inputVars, bfsVars, extractVars, edges, iconVars, scanVars, histVars>>

scan_dirs == <<<<0, 1>>, <<0, -1>>, <<1, 0>>, <<-1, 0>>>>

\* The neighbour is inside the image, a wall pixel, and not visited.
CanStart(p, d) ==
    LET n == Plus(p, d) IN InBounds(n) /\ IsWall(n) /\ n \notin visited_wall

\* The iterations of the two inner loops, from the current one on, that start a scan.
Startable ==
    {bd \in (1 .. Len(boundary_coords)) \X (1 .. 4) :
        /\ bd[1] > bix \/ (bd[1] = bix /\ bd[2] >= dix)
        /\ CanStart(boundary_coords[bd[1]], scan_dirs[bd[2]])}

FirstStartable == CHOOSE bd \in Startable : \A o \in Startable : bd = o \/ Less(bd, o)

\* for rid_val in region_ids: the next room and its boundary pixels.
NextRoom ==
    /\ pc = "idle"
    /\ Startable = {}
    /\ rix < Len(region_ids)
    /\ rix' = rix + 1
    /\ boundary_coords' = SortedPixels(BoundaryMask(region_ids[rix + 1]))
    /\ bix' = 1
    /\ dix' = 1
    /\ UNCHANGED <<inputVars, bfsVars, pc, extractVars, edges, iconVars, wallVars, scanVars, histVars>>

\* return edges
WallPassDone ==
    /\ pc = "idle"
    /\ Startable = {}
    /\ rix >= Len(region_ids)
    /\ pc' = "done"
    /\ UNCHANGED <<inputVars, bfsVars, extractVars, edges, iconVars, wallVars, loopVars, scanVars,
                   histVars>>

\* The next boundary pixel and direction whose neighbour is an unvisited wall
\* pixel: t = 1, the segment is empty, nothing encountered yet.
StartScan ==
    /\ pc = "idle"
    /\ Startable # {}
    /\ bix' = FirstStartable[1]
    /\ dix' = FirstStartable[2]
    /\ t' = 1
    /\ wall_pixels_segment' = <<>>
    /\ encountered_room' = 0
    /\ last_wall_pixel' = NoPixel
    /\ pc' = "penetrating"
    /\ starts' = Append(starts, Plus(boundary_coords[FirstStartable[1]],
                                     scan_dirs[FirstStartable[2]]))
    /\ UNCHANGED <<inputVars, bfsVars, extractVars, edges, iconVars, wallVars, rix, boundary_coords,
                   oix, cur, icon_log, seg_log, owner, picks>>

rid == region_ids[rix]
xy  == boundary_coords[bix]
dxy == scan_dirs[dix]

\* (cx, cy) = (x + dx * t, y + dy * t)
cxy == <<xy[1] + dxy[1] * t, xy[2] + dxy[2] * t>>

\* Slip: the room the scan came from counts as a room met.
AnyRoom(c) == region_id_map[c] # 0

\* rid2 != 0 and rid2 != rid
OtherRoom(c) == region_id_map[c] # 0 /\ region_id_map[c] # rid

\* The loop variables after "continue": the next direction, or the next pixel.
Continue ==
    /\ IF dix < 4 THEN bix' = bix /\ dix' = dix + 1
                  ELSE bix' = bix + 1 /\ dix' = 1
    /\ UNCHANGED <<rix, boundary_coords>>

\* Still inside the wall: record the pixel and go on.
PenetrateStep ==
    /\ pc = "penetrating"
    /\ InBounds(cxy)
    /\ IsWall(cxy)
    /\ wall_pixels_segment' = Append(wall_pixels_segment, cxy)
    /\ t' = t + 1
    /\ UNCHANGED <<inputVars, bfsVars, pc, extractVars, edges, iconVars, wallVars, loopVars,
                   encountered_room, last_wall_pixel, oix, cur, histVars>>

\* The scan left the image, or met a pixel that is no wall and no other room.
PenetrateAbort ==
    /\ pc = "penetrating"
    /\ \/ ~InBounds(cxy)
       \/ /\ InBounds(cxy)
          /\ ~IsWall(cxy)
          /\ ~OtherRoom(cxy)
    /\ pc' = "idle"
    /\ Continue
    /\ UNCHANGED <<inputVars, bfsVars, extractVars, edges, iconVars, wallVars, scanVars, histVars>>

-----------------------------------------------------------------------------

\* orient_dirs, sideA and sideB for the scan direction.
OrientDirs(d) ==
    CASE d = <<0, 1>>  -> <<<<1, 0>>, <<-1, 0>>>>
      [] d = <<0, -1>> -> <<<<1, 0>>, <<-1, 0>>>>
      [] d = <<1, 0>>  -> <<<<0, 1>>, <<0, -1>>>>
      [] d = <<-1, 0>> -> <<<<0, 1>>, <<0, -1>>>>

\* Slip: sideA is given the offsets of sideB.
SideASameAsB(d) == d

SideA(d) ==
    CASE d = <<0, 1>>  -> <<0, -1>>
      [] d = <<0, -1>> -> <<0, 1>>
      [] d = <<1, 0>>  -> <<-1, 0>>
      [] d = <<-1, 0>> -> <<1, 0>>

SideB(d) ==
    CASE d = <<0, 1>>  -> <<0, 1>>
      [] d = <<0, -1>> -> <<0, -1>>
      [] d = <<1, 0>>  -> <<1, 0>>
      [] d = <<-1, 0>> -> <<-1, 0>>

\* Slip: the marks are not set.
MarkedNone(S) == visited_wall

\* visited_wall[wx, wy] = True for the given pixels
Marked(S) == visited_wall \cup S

\* The scan met a pixel of another room: the pixels scanned become visited and
\* the extension starts at the last wall pixel.
PenetrateResolve ==
    /\ pc = "penetrating"
    /\ InBounds(cxy)
    /\ ~IsWall(cxy)
    /\ OtherRoom(cxy)
    /\ encountered_room' = region_id_map[cxy]
    /\ last_wall_pixel' = <<cxy[1] - dxy[1], cxy[2] - dxy[2]>>
    /\ visited_wall' = Marked(Range(wall_pixels_segment))
    /\ oix' = 1
    /\ cur' = <<cxy[1] - dxy[1], cxy[2] - dxy[2]>>
    /\ pc' = "extending"
    /\ UNCHANGED <<inputVars, bfsVars, extractVars, edges, iconVars, region_ids, segment_label_map,
                   loopVars, t, wall_pixels_segment, histVars>>

\* (curx + odx, cury + ody)
nxt == Plus(cur, OrientDirs(dxy)[oix])

\* Slip: the rooms on the two sides of the pixel are not looked at.
CanExtendAnySides ==
    /\ InBounds(nxt)
    /\ IsWall(nxt)
    /\ nxt \notin visited_wall

\* None of the breaks of the extension loop is taken at the next pixel.
CanExtend ==
    /\ InBounds(nxt)
    /\ IsWall(nxt)
    /\ nxt \notin visited_wall
    /\ InBounds(Plus(nxt, SideA(dxy)))
    /\ InBounds(Plus(nxt, SideB(dxy)))
    /\ region_id_map[Plus(nxt, SideA(dxy))] = rid
    /\ region_id_map[Plus(nxt, SideB(dxy))] = encountered_room

\* The next pixel along the wall joins the segment.
ExtendStep ==
    /\ pc = "extending"
    /\ CanExtend
    /\ cur' = nxt
    /\ wall_pixels_segment' = Append(wall_pixels_segment, nxt)
    /\ visited_wall' = Marked({nxt})
    /\ UNCHANGED <<inputVars, bfsVars, pc, extractVars, edges, iconVars, region_ids,
                   segment_label_map, loopVars, t, encountered_room, last_wall_pixel, oix,
                   histVars>>

\* break: the other direction starts again at the base pixel; after both, the
\* segment is complete.
ExtendStop ==
    /\ pc = "extending"
    /\ ~CanExtend
    /\ IF oix < Len(OrientDirs(dxy))
       THEN oix' = oix + 1 /\ cur' = last_wall_pixel /\ pc' = "extending"
       ELSE oix' = oix /\ cur' = cur /\ pc' = "segment"
    /\ UNCHANGED <<inputVars, bfsVars, extractVars, edges, iconVars, wallVars, loopVars, t,
                   wall_pixels_segment, encountered_room, last_wall_pixel, histVars>>

segment_pixels == Range(wall_pixels_segment)

segment_length == Cardinality(segment_pixels)

\* Slip: only the neighbours to the left and to the right are looked at.
TouchesExcludedSideways(pixels) ==
    \E p \in pixels : \E d \in {<<0, 1>>, <<0, -1>>} :
        InBounds(Plus(p, d)) /\ wall_label_array[Plus(p, d)] \in exclude_indices

\* Some pixel of the set has a neighbour inside the image with an excluded label.
TouchesExcluded(pixels) ==
    \E p \in pixels : \E d \in Cross :
        InBounds(Plus(p, d)) /\ wall_label_array[Plus(p, d)] \in exclude_indices

exclude_segment == TouchesExcluded(segment_pixels)

pair == EdgeKey(rid, encountered_room)

seg_label == wall_label_array[last_wall_pixel]

\* What the history keeps of the segment at hand; against: the segment that the
\* map entry of its label stood for when it was processed, 0 if there was none.
SegRecord(outcome) ==
    [rid |-> rid, other |-> encountered_room, pair |-> pair, pixels |-> segment_pixels,
     len |-> segment_length, base |-> last_wall_pixel, label |-> seg_label,
     outcome |-> outcome,
     against |-> IF seg_label \in DOMAIN owner THEN owner[seg_label] ELSE 0]

\* Slip: the larger segment wins.
Larger(len, prev_len) == len > prev_len

\* if segment_length < prev_len
Smaller(len, prev_len) == len < prev_len

\* if exclude_segment: continue
SegmentExcluded ==
    /\ pc = "segment"
    /\ exclude_segment
    /\ seg_log' = Append(seg_log, SegRecord("excluded"))
    /\ pc' = "idle"
    /\ Continue
    /\ UNCHANGED <<inputVars, bfsVars, extractVars, edges, iconVars, wallVars, scanVars, icon_log,
                   owner, starts, picks>>

\* The edge map with one wall segment of the given length added to the pair.
\* Slip: the type set is overwritten instead of added to.
AddWallOnly(e, a, b, len) ==
    LET key == EdgeKey(a, b)
        e1  == EnsureEdgeEntry(e, a, b)
    IN [e1 EXCEPT ![key] =
          [@ EXCEPT !.connection_types = {"wall"},
                    !.num_wall = @ + 1,
                    !.area_wall = @ + len]]

\* connection_types.add('wall'); num_wall += 1; area_wall += segment_length
AddWall(e, a, b, len) ==
    LET key == EdgeKey(a, b)
        e1  == EnsureEdgeEntry(e, a, b)
    IN [e1 EXCEPT ![key] =
          [@ EXCEPT !.connection_types = @ \cup {"wall"},
                    !.num_wall = @ + 1,
                    !.area_wall = @ + len]]

\* Slip: the entry is never popped.
RollbackKeepEntry(e, prev_pair, prev_len) ==
    LET e1 == [e EXCEPT ![prev_pair] =
                 [@ EXCEPT !.num_wall = @ - 1, !.area_wall = @ - prev_len]]
    IN IF e1[prev_pair].num_wall = 0
       THEN [e1 EXCEPT ![prev_pair] = [@ EXCEPT !.connection_types = @ \ {"wall"}]]
       ELSE e1

\* Slip: the area of the segment taken back is not subtracted.
RollbackKeepArea(e, prev_pair, prev_len) ==
    LET e1 == [e EXCEPT ![prev_pair] = [@ EXCEPT !.num_wall = @ - 1]]
        e2 == IF e1[prev_pair].num_wall = 0
              THEN [e1 EXCEPT ![prev_pair] =
                      [@ EXCEPT !.connection_types = @ \ {"wall"}]]
              ELSE e1
    IN IF e1[prev_pair].num_wall = 0 /\ e2[prev_pair].connection_types = {}
       THEN RemoveEdge(e2, prev_pair)
       ELSE e2

\* Slip: the count and the area go down, the type and the entry stay.
RollbackKeepType(e, prev_pair, prev_len) ==
    [e EXCEPT ![prev_pair] = [@ EXCEPT !.num_wall = @ - 1, !.area_wall = @ - prev_len]]

\* The edge map with the recorded segment of prev_pair taken back.
Rollback(e, prev_pair, prev_len) ==
    LET e1 == [e EXCEPT ![prev_pair] =
                 [@ EXCEPT !.num_wall = @ - 1, !.area_wall = @ - prev_len]]
        e2 == IF e1[prev_pair].num_wall = 0
              THEN [e1 EXCEPT ![prev_pair] =
                      [@ EXCEPT !.connection_types = @ \ {"wall"}]]
              ELSE e1
    IN IF e1[prev_pair].num_wall = 0 /\ e2[prev_pair].connection_types = {}
       THEN RemoveEdge(e2, prev_pair)
       ELSE e2

SetEntry(m, k, v) == [x \in DOMAIN m \cup {k} |-> IF x = k THEN v ELSE m[x]]

\* seg_label not in segment_label_map: the first segment found for the label.
SegmentFirst ==
    /\ pc = "segment"
    /\ ~exclude_segment
    /\ seg_label \notin DOMAIN segment_label_map
    /\ segment_label_map' = SetEntry(segment_label_map, seg_label, <<pair, segment_length>>)
    /\ edges' = AddWall(edges, rid, encountered_room, segment_length)
    /\ seg_log' = Append(seg_log, SegRecord("recorded"))
    /\ owner' = SetEntry(owner, seg_label, Len(seg_log) + 1)
    /\ pc' = "idle"
    /\ Continue
    /\ UNCHANGED <<inputVars, bfsVars, extractVars, iconVars, region_ids, visited_wall, scanVars,
                   icon_log, starts, picks>>

\* segment_length < prev_len: the recorded pair is replaced.
SegmentReplace ==
    /\ pc = "segment"
    /\ ~exclude_segment
    /\ seg_label \in DOMAIN segment_label_map
    /\ Smaller(segment_length, segment_label_map[seg_label][2])
    /\ LET prev_pair == segment_label_map[seg_label][1]
           prev_len  == segment_label_map[seg_label][2]
       IN edges' = AddWall(Rollback(edges, prev_pair, prev_len),
                           rid, encountered_room, segment_length)
    /\ segment_label_map' = SetEntry(segment_label_map, seg_label, <<pair, segment_length>>)
    /\ seg_log' = Append(seg_log, SegRecord("recorded"))
    /\ owner' = SetEntry(owner, seg_label, Len(seg_log) + 1)
    /\ pc' = "idle"
    /\ Continue
    /\ UNCHANGED <<inputVars, bfsVars, extractVars, iconVars, region_ids, visited_wall, scanVars,
                   icon_log, starts, picks>>

\* else: continue -- the segment is not smaller than the recorded one.
SegmentDiscard ==
    /\ pc = "segment"
    /\ ~exclude_segment
    /\ seg_label \in DOMAIN segment_label_map
    /\ ~Smaller(segment_length, segment_label_map[seg_label][2])
    /\ seg_log' = Append(seg_log, SegRecord("discarded"))
    /\ pc' = "idle"
    /\ Continue
    /\ UNCHANGED <<inputVars, bfsVars, extractVars, edges, iconVars, wallVars, scanVars, icon_log,
                   owner, starts, picks>>

-----------------------------------------------------------------------------
(* detect_adjacency, breadth-first variant (detect_adjacency.py): wall pass.   *)
(* Its door / window pass and its loops over the rooms, their boundary pixels *)
(* and the four directions are those of the directed-scan variant.            *)

\* is_outer, outer_flag: a 4-neighbour lies outside the image, or is no wall
\* pixel and belongs to no room.
Outer(p) ==
    \E d \in Cross :
        LET a == Plus(p, d) IN
        IF InBounds(a) THEN ~IsWall(a) /\ region_id_map[a] = 0 ELSE TRUE

\* Slip: the room the search started from is not left out.
NbrRegionsAll(p) ==
    {region_id_map[a] : a \in {Plus(p, d) : d \in {e \in Cross :
                                 InBounds(Plus(p, e)) /\ ~IsWall(Plus(p, e))}}} \ {0}

\* neighbor_regions, nbr_regions: the rooms other than rid on the non-wall
\* 4-neighbours of a wall pixel that is not outer.
NbrRegions(p) ==
    {region_id_map[a] : a \in {Plus(p, d) : d \in {e \in Cross :
                                 InBounds(Plus(p, e)) /\ ~IsWall(Plus(p, e))}}} \ {0, rid}

TheOne(S) == CHOOSE x \in S : TRUE

\* (nx, ny) of the first iteration, from the current one on, whose neighbour is
\* an unvisited wall pixel.
nxy == Plus(boundary_coords[FirstStartable[1]], scan_dirs[FirstStartable[2]])

\* The loop variables after "continue" in the iteration bd.
ContinueFrom(bd) ==
    /\ IF bd[2] < 4 THEN bix' = bd[1] /\ dix' = bd[2] + 1
                    ELSE bix' = bd[1] + 1 /\ dix' = 1
    /\ UNCHANGED <<rix, boundary_coords>>

\* is_outer or len(neighbor_regions) > 1: the pixel is marked and passed over.
BfsSkip ==
    /\ pc = "idle"
    /\ Startable # {}
    /\ Outer(nxy) \/ Cardinality(NbrRegions(nxy)) > 1
    /\ visited_wall' = Marked({nxy})
    /\ ContinueFrom(FirstStartable)
    /\ UNCHANGED <<h, w, wall_label_array, icon_array, callVars, pc, extractVars, edges,
                   iconVars, region_ids, segment_label_map, scanVars, histVars, bfsVars>>

\* Initialize BFS for this wall segment.
BfsStart ==
    /\ pc = "idle"
    /\ Startable # {}
    /\ ~Outer(nxy)
    /\ Cardinality(NbrRegions(nxy)) <= 1
    /\ bix' = FirstStartable[1]
    /\ dix' = FirstStartable[2]
    /\ encountered_room' = IF NbrRegions(nxy) = {} THEN 0 ELSE TheOne(NbrRegions(nxy))
    /\ dq' = <<nxy>>
    /\ visited_wall' = Marked({nxy})
    /\ wall_segment_pixels' = <<>>
    /\ pc' = "bfs"
    /\ UNCHANGED <<h, w, wall_label_array, icon_array, callVars, extractVars, edges,
                   iconVars, region_ids, segment_label_map, rix, boundary_coords, t,
                   wall_pixels_segment, last_wall_pixel, oix, cur, histVars>>

\* Whether a wall pixel with the neighbouring rooms nbr joins the search that
\* has the target room (0: none yet).
Joins(nbr, room) ==
    IF room = 0 THEN Cardinality(nbr) <= 1
    ELSE nbr = {} \/ nbr = {room}

\* The queue, the marks and the target after the neighbours k .. 4 of the
\* pixel c have been examined, st being their values before.
RECURSIVE Examine(_, _, _)
Examine(c, k, st) ==
    IF k > Len(scan_dirs) THEN st
    ELSE LET wxy == Plus(c, scan_dirs[k]) IN
         IF ~InBounds(wxy) THEN Examine(c, k + 1, st)
         ELSE IF ~IsWall(wxy) \/ wxy \in st.visited THEN Examine(c, k + 1, st)
         ELSE IF Outer(wxy) THEN Examine(c, k + 1, st)
         ELSE IF ~Joins(NbrRegions(wxy), st.room) THEN Examine(c, k + 1, st)
         ELSE Examine(c, k + 1,
                      [dq      |-> Append(st.dq, wxy),
                       visited |-> st.visited \cup {wxy},
                       room    |-> IF st.room = 0 /\ NbrRegions(wxy) # {}
                                   THEN TheOne(NbrRegions(wxy)) ELSE st.room])

\* One iteration of "while dq": popleft and the four neighbour checks.
BfsPop ==
    /\ pc = "bfs"
    /\ dq # <<>>
    /\ LET c  == Head(dq)
           st == Examine(c, 1, [dq |-> Tail(dq), visited |-> visited_wall,
                                room |-> encountered_room])
       IN /\ wall_segment_pixels' = Append(wall_segment_pixels, c)
          /\ dq' = st.dq
          /\ visited_wall' = st.visited
          /\ encountered_room' = st.room
    /\ UNCHANGED <<h, w, wall_label_array, icon_array, callVars, pc, extractVars, edges,
                   iconVars, region_ids, segment_label_map, loopVars, t,
                   wall_pixels_segment, last_wall_pixel, oix, cur, histVars>>

\* encountered_room is None: no second room found.
BfsNoRoom ==
    /\ pc = "bfs"
    /\ dq = <<>>
    /\ encountered_room = 0
    /\ pc' = "idle"
    /\ Continue
    /\ UNCHANGED <<h, w, wall_label_array, icon_array, callVars, extractVars, edges,
                   iconVars, wallVars, scanVars, histVars, bfsVars>>

\* What the history keeps of a recorded segment of the breadth-first variant.
BfsRecordOf ==
    [rid |-> rid, other |-> encountered_room, pair |-> EdgeKey(rid, encountered_room),
     pixels |-> Range(wall_segment_pixels),
     len |-> Cardinality(Range(wall_segment_pixels))]

\* A wall connection between rid and encountered_room.
BfsRecord ==
    /\ pc = "bfs"
    /\ dq = <<>>
    /\ encountered_room # 0
    /\ edges' = AddWall(edges, rid, encountered_room,
                        Cardinality(Range(wall_segment_pixels)))
    /\ seg_log' = Append(seg_log, BfsRecordOf)
    /\ pc' = "idle"
    /\ Continue
    /\ UNCHANGED <<h, w, wall_label_array, icon_array, callVars, extractVars, iconVars,
                   wallVars, scanVars, icon_log, owner, starts, picks, bfsVars>>

-----------------------------------------------------------------------------
(* Inputs *)

\* The grid whose rows are the given sequences.
GridOf(rows) ==
    [p \in Pixels(Len(rows), Len(rows[1])) |-> rows[p[1] + 1][p[2] + 1]]

Blank(hh, ww) == [p \in Pixels(hh, ww) |-> 0]

Input(hh, ww, lab, ico) == [h |-> hh, w |-> ww, label |-> lab, icon |-> ico]

\* Background, wall, and one room category.
Labels == {0, 2, 3}

\* Widest one-row image.
MaxRow == 6

\* Every one-row image over Labels, without icons.
RowInputs ==
    UNION {{Input(1, ww, lab, Blank(1, ww)) : lab \in [Pixels(1, ww) -> Labels]} :
           ww \in 1 .. MaxRow}

\* Rows of the three-column images.
MaxSide == 3

\* Every image of three columns made of wall and room pixels only, without icons.
BlockInputs ==
    {Input(MaxSide, 3, lab, Blank(MaxSide, 3)) : lab \in [Pixels(MaxSide, 3) -> {2, 3}]}

\* Widest two-row image.
MaxCols == 3

\* Every two-row image over Labels, without icons.
TwoRowInputs ==
    UNION {{Input(2, ww, lab, Blank(2, ww)) : lab \in [Pixels(2, ww) -> Labels]} :
           ww \in 1 .. MaxCols}

\* Most door or window pixels in an image with icons.
MaxIconPx == 2

IconGrids(hh, ww, vals) ==
    {ico \in [Pixels(hh, ww) -> vals \cup {0}] :
        Cardinality({p \in Pixels(hh, ww) : ico[p] # 0}) <= MaxIconPx}

\* Every 2 x 3 image of wall and room pixels with doors and windows anywhere.
IconInputs ==
    {Input(2, 3, lab, ico) : lab \in [Pixels(2, 3) -> {2, 3}], ico \in IconGrids(2, 3, {1, 2})}

\* Every widest one-row image of wall and room pixels with doors anywhere.
DoorRowInputs ==
    {Input(1, MaxRow, lab, ico) :
        lab \in [Pixels(1, MaxRow) -> {2, 3}], ico \in IconGrids(1, MaxRow, {1})}

\* Longest partition wall of the two-room plans.
MaxWallLen == 8

\* Widest room of the two-room plans.
MaxRoomWidth == 2

\* Two rooms of the same width, of category 3, on either side of a straight wall
\* one pixel thick and len pixels long; framed: with a wall all around.
TwoRoomRows(len, rw, framed) ==
    LET inner == [i \in 1 .. len |->
                    [j \in 1 .. 2 * rw + 1 |-> IF j = rw + 1 THEN 2 ELSE 3]]
        wide  == 2 * rw + 3
    IN IF framed
       THEN [i \in 1 .. len + 2 |->
               [j \in 1 .. wide |->
                  IF i = 1 \/ i = len + 2 \/ j = 1 \/ j = wide THEN 2
                  ELSE inner[i - 1][j - 1]]]
       ELSE inner

Transpose(rows) == [j \in 1 .. Len(rows[1]) |-> [i \in 1 .. Len(rows) |-> rows[i][j]]]

TwoRoomPlan(len, rw, framed, across) ==
    LET rows == IF across THEN Transpose(TwoRoomRows(len, rw, framed))
                          ELSE TwoRoomRows(len, rw, framed)
    IN Input(Len(rows), Len(rows[1]), GridOf(rows), Blank(Len(rows), Len(rows[1])))

TwoRoomInputs ==
    {TwoRoomPlan(len, rw, framed, across) :
        len \in 1 .. MaxWallLen, rw \in 1 .. MaxRoomWidth,
        framed \in BOOLEAN, across \in BOOLEAN}

\* The labels the source tells apart: the excluded ones, the wall, two listed
\* room categories and one that is not listed.
CategoryLabels == {0, 1, 2, 3, 4, 8, 11, 50}

\* Every one-row image over CategoryLabels as wide as the two-row images.
CategoryInputs ==
    UNION {{Input(1, ww, lab, Blank(1, ww)) : lab \in [Pixels(1, ww) -> CategoryLabels]} :
           ww \in 1 .. MaxCols}

\* The door of a door plan covers these pixels of the partition wall.
IsDoorPixel(len, rw, framed, i, j) ==
    LET off == IF framed THEN 1 ELSE 0 IN
    j = rw + 1 + off /\ i \in {len \div 2 + off, len \div 2 + 1 + off}

\* A two-room plan with a door two pixels long at the midpoint of the partition
\* wall; under: the raw label of the door pixels (2: the wall runs on beneath
\* the door icon, 0: the door pixels are background in the label image).
DoorPlan(len, rw, framed, across, under) ==
    LET base == TwoRoomRows(len, rw, framed)
        lab  == [i \in 1 .. Len(base) |->
                   [j \in 1 .. Len(base[1]) |->
                      IF IsDoorPixel(len, rw, framed, i, j) THEN under ELSE base[i][j]]]
        ico  == [i \in 1 .. Len(base) |->
                   [j \in 1 .. Len(base[1]) |->
                      IF IsDoorPixel(len, rw, framed, i, j) THEN 1 ELSE 0]]
        rows == IF across THEN Transpose(lab) ELSE lab
        irws == IF across THEN Transpose(ico) ELSE ico
    IN Input(Len(rows), Len(rows[1]), GridOf(rows), GridOf(irws))

\* Shortest partition wall that takes a door.
MinDoorWall == 6

DoorPlanInputs ==
    {DoorPlan(len, rw, framed, across, under) :
        len \in MinDoorWall .. MaxWallLen, rw \in 1 .. MaxRoomWidth,
        framed \in BOOLEAN, across \in BOOLEAN, under \in {0, 2}}

\* Largest side of the single-room plans (8: the 10 x 10 grid).
MaxRoomSide == 8

\* One square room of category 3 with a wall one pixel thick all around.
SingleRoomPlan(n) ==
    LET rows == [i \in 1 .. n + 2 |->
                   [j \in 1 .. n + 2 |->
                      IF i = 1 \/ i = n + 2 \/ j = 1 \/ j = n + 2 THEN 2 ELSE 3]]
    IN Input(n + 2, n + 2, GridOf(rows), Blank(n + 2, n + 2))

SingleRoomInputs == {SingleRoomPlan(n) : n \in 1 .. MaxRoomSide}

\* Every image of one row of three wall and room pixels whose icon image has
\* another shape (1 x 2 or 2 x 3), with doors and windows anywhere in it.
MismatchInputs ==
    {Input(1, 3, lab, ico) :
        lab \in [Pixels(1, 3) -> {2, 3}],
        ico \in IconGrids(1, 2, {1, 2}) \cup IconGrids(2, 3, {1, 2})}

\* Longest stem of the junction plans.
MaxStem == 5

\* A T-junction: a room on one side of a straight wall len pixels long, and on
\* the other side two rooms parted by a branch wall that meets it at row b.
JunctionRows(len, b) ==
    [i \in 1 .. len |->
        [j \in 1 .. 3 |-> IF j = 2 \/ (j = 3 /\ i = b) THEN 2 ELSE 3]]

JunctionPlanOf(len, b, across) ==
    LET rows == IF across THEN Transpose(JunctionRows(len, b)) ELSE JunctionRows(len, b)
    IN Input(Len(rows), Len(rows[1]), GridOf(rows), Blank(Len(rows), Len(rows[1])))

JunctionInputs ==
    UNION {{JunctionPlanOf(len, b, across) : b \in 2 .. len - 1, across \in BOOLEAN} :
           len \in 3 .. MaxStem}

Inputs == RowInputs \cup BlockInputs \cup TwoRowInputs \cup IconInputs \cup DoorRowInputs
          \cup TwoRoomInputs \cup CategoryInputs \cup JunctionInputs \cup DoorPlanInputs
          \cup SingleRoomInputs \cup MismatchInputs

-----------------------------------------------------------------------------
(* The pipeline *)

\* The state at the first call, for an input of the given family.
InitOn(family) ==
    /\ \E g \in family :
        /\ h = g.h
        /\ w = g.w
        /\ wall_label_array = g.label
        /\ icon_array = g.icon
        /\ region_id_map = Blank(g.h, g.w)
    /\ pc = "scan"
    /\ current_id = 0
    /\ scan = 0
    /\ stack = <<>>
    /\ rooms = <<>>
    /\ edges = NoEdges
    /\ icon_val = 1
    /\ labeled_icons = <<>>
    /\ lbl = 1
    /\ region_ids = <<>>
    /\ visited_wall = {}
    /\ segment_label_map = <<>>
    /\ rix = 0
    /\ boundary_coords = <<>>
    /\ bix = 1
    /\ dix = 1
    /\ t = 1
    /\ wall_pixels_segment = <<>>
    /\ encountered_room = 0
    /\ last_wall_pixel = NoPixel
    /\ oix = 1
    /\ cur = NoPixel
    /\ dq = <<>>
    /\ wall_segment_pixels = <<>>
    /\ icon_log = <<>>
    /\ seg_log = <<>>
    /\ owner = <<>>
    /\ starts = <<>>
    /\ picks = {}
    /\ run = 1
    /\ first = <<>>

Init == InitOn(Inputs)

\* What the two functions have returned.
Result == [region_id_map |-> region_id_map, rooms |-> rooms, edges |-> edges]

\* The caller runs extract_rooms and detect_adjacency again on the same images.
\* Every call builds its own arrays and maps: region_id_map, current_id and
\* edges start afresh here, the locals of the wall pass at its beginning.
Rerun ==
    /\ pc = "done"
    /\ run = 1
    /\ run' = 2
    /\ first' = Result
    /\ region_id_map' = Blank(h, w)
    /\ pc' = "scan"
    /\ current_id' = 0
    /\ scan' = 0
    /\ stack' = <<>>
    /\ rooms' = <<>>
    /\ edges' = NoEdges
    /\ icon_val' = 1
    /\ labeled_icons' = <<>>
    /\ lbl' = 1
    /\ rix' = 0
    /\ boundary_coords' = <<>>
    /\ bix' = 1
    /\ dix' = 1
    /\ t' = 1
    /\ wall_pixels_segment' = <<>>
    /\ encountered_room' = 0
    /\ last_wall_pixel' = NoPixel
    /\ oix' = 1
    /\ cur' = NoPixel
    /\ icon_log' = <<>>
    /\ seg_log' = <<>>
    /\ owner' = <<>>
    /\ starts' = <<>>
    /\ picks' = {}
    /\ UNCHANGED <<h, w, wall_label_array, icon_array, wallVars, bfsVars>>

Next ==
    \/ SeedRegion
    \/ PopPixel
    \/ BuildRooms
    \/ LabelIcons
    \/ IconComponent
    \/ IconShapeError
    \/ NextIconValue
    \/ StartWallPass
    \/ NextRoom
    \/ StartScan
    \/ PenetrateStep
    \/ PenetrateAbort
    \/ PenetrateResolve
    \/ ExtendStep
    \/ ExtendStop
    \/ SegmentExcluded
    \/ SegmentFirst
    \/ SegmentReplace
    \/ SegmentDiscard
    \/ WallPassDone
    \/ Rerun

Spec == Init /\ [][Next]_vars

\* extract_rooms is called again on the same image; the call builds its own
\* region_id_map and counts its ids from 0.
RerunExtract ==
    /\ pc = "label_icons"
    /\ run = 1
    /\ run' = 2
    /\ first' = Result
    /\ region_id_map' = Blank(h, w)
    /\ pc' = "scan"
    /\ current_id' = 0
    /\ scan' = 0
    /\ stack' = <<>>
    /\ rooms' = <<>>
    /\ UNCHANGED <<h, w, wall_label_array, icon_array, edges, iconVars, wallVars, loopVars,
                   scanVars, histVars, bfsVars>>

\* extract_rooms alone, on the images without icons: the first call with the
\* stack of the source, the second with the worklist emptied in any order.
OrderInit == InitOn(BlockInputs \cup TwoRowInputs \cup CategoryInputs)

OrderNext ==
    \/ SeedRegion
    \/ (run = 1 /\ PopPixel)
    \/ (run = 2 /\ PopAny)
    \/ BuildRooms
    \/ RerunExtract

OrderSpec == OrderInit /\ [][OrderNext]_vars

\* A block of wall and room pixels inside a frame of wall, without icons.
FramedBlockInputs ==
    {Input(MaxSide + 2, 5,
           [p \in Pixels(MaxSide + 2, 5) |->
               IF p[1] = 0 \/ p[1] = MaxSide + 1 \/ p[2] = 0 \/ p[2] = 4 THEN 2
               ELSE lab[<<p[1] - 1, p[2] - 1>>]],
           Blank(MaxSide + 2, 5)) : lab \in [Pixels(MaxSide, 3) -> {2, 3}]}

\* The pipeline as main.py composes it, with the breadth-first variant.
BfsInit == InitOn(FramedBlockInputs \cup BlockInputs \cup IconInputs \cup TwoRoomInputs
                  \cup JunctionInputs \cup DoorPlanInputs)

BfsNext ==
    \/ SeedRegion
    \/ PopPixel
    \/ BuildRooms
    \/ LabelIcons
    \/ IconComponent
    \/ NextIconValue
    \/ StartWallPass
    \/ NextRoom
    \/ BfsSkip
    \/ BfsStart
    \/ BfsPop
    \/ BfsNoRoom
    \/ BfsRecord
    \/ WallPassDone

BfsSpec == BfsInit /\ [][BfsNext]_vars

\* The steps of the penetration loop and of the extension loops.
ScanStep ==
    PenetrateStep \/ PenetrateAbort \/ PenetrateResolve \/ ExtendStep \/ ExtendStop

\* The straight-line code that processes a resolved segment.
SegmentStep == SegmentExcluded \/ SegmentFirst \/ SegmentReplace \/ SegmentDiscard

\* A scan under way runs on: the loops of lines 114-132 and 164-185 and the
\* code after them take their next step.
FairSpec == Spec /\ WF_vars(ScanStep) /\ WF_vars(SegmentStep)

\* Both programs on the same images: debug_topology.main, which calls the
\* directed-scan variant, and then main.py, which calls the breadth-first one.
BothInit == InitOn(FramedBlockInputs \cup BlockInputs \cup IconInputs \cup TwoRoomInputs
                   \cup JunctionInputs \cup DoorPlanInputs)

\* The steps of extract_rooms.
ExtractStep == SeedRegion \/ PopPixel \/ BuildRooms

\* The steps of the door / window pass and of the loops over rooms.
PassStep ==
    LabelIcons \/ IconComponent \/ NextIconValue \/ StartWallPass \/ NextRoom \/ WallPassDone

\* The steps of the wall pass of the breadth-first variant.
BfsStep == BfsSkip \/ BfsStart \/ BfsPop \/ BfsNoRoom \/ BfsRecord

BothNext ==
    \/ ExtractStep
    \/ PassStep
    \/ (run = 1 /\ (StartScan \/ ScanStep \/ SegmentStep))
    \/ Rerun
    \/ (run = 2 /\ BfsStep)

\* Both programs have returned.
Returned == pc = "done" /\ run = 2

\* Nothing suspends or blocks: until both programs have returned, the next
\* step is taken.
BothSpec == BothInit /\ [][BothNext]_vars /\ ([]<>Returned \/ []<><<BothNext>>_vars)

-----------------------------------------------------------------------------
(* Room segmentation: what extract_rooms returns *)

\* extract_rooms has just returned, or the whole pipeline has.
Segmented == pc \in {"label_icons", "done"}

RoomEligible(p) == wall_label_array[p] \notin {0, 1, 2, 8, 50}

EligibleSet == {p \in AllPixels : RoomEligible(p)}

RoomPixels(i) == {p \in AllPixels : region_id_map[p] = rooms[i].id}

RECURSIVE SumAreas(_)
SumAreas(k) == IF k = 0 THEN 0 ELSE rooms[k].area + SumAreas(k - 1)

\* C1: once extract_rooms has returned, every room-eligible pixel (category
\* not in {0, 1, 2, 8, 50}) carries a positive room id and every other pixel
\* carries 0; the pixel sets of the rooms are pairwise disjoint, their union is
\* the set of eligible pixels, and their areas add up to its size.
PartitionInvariant ==
    Segmented =>
        /\ \A p \in AllPixels :
              IF RoomEligible(p) THEN region_id_map[p] >= 1 ELSE region_id_map[p] = 0
        /\ UNION {RoomPixels(i) : i \in DOMAIN rooms} = EligibleSet
        /\ \A i, j \in DOMAIN rooms : i # j => RoomPixels(i) \cap RoomPixels(j) = {}
        /\ SumAreas(Len(rooms)) = Cardinality(EligibleSet)

\* Two rooms and a pixel that is no room, after segmentation.
PartitionWitness ==
    /\ Segmented
    /\ Len(rooms) >= 2
    /\ EligibleSet # AllPixels
    /\ \E p \in AllPixels : wall_label_array[p] = 2

UsedIds == {region_id_map[p] : p \in EligibleSet}

\* C2: in the returned region_id_map two eligible pixels have the same id
\* exactly if a 4-connected path of eligible pixels joins them; the ids in use
\* are 1 .. N without gaps, in raster order of the first pixel of each region.
ComponentIds ==
    Segmented =>
        /\ \A p \in EligibleSet :
              {q \in EligibleSet : region_id_map[q] = region_id_map[p]}
                  = Grow({p}, EligibleSet)
        /\ UsedIds = 1 .. Cardinality(UsedIds)
        /\ \A a, b \in UsedIds :
              a < b => Less(MinPix(RegionPixels(a)), MinPix(RegionPixels(b)))

\* Three regions, one of them bent around a corner, with eligible pixels of
\* different regions touching only diagonally.
ComponentWitness ==
    /\ Segmented
    /\ Cardinality(UsedIds) >= 3
    /\ \E p, q \in EligibleSet :
          /\ region_id_map[p] # region_id_map[q]
          /\ q = <<p[1] + 1, p[2] + 1>>
    /\ \E p \in EligibleSet :
          /\ InBounds(<<p[1] + 1, p[2] + 1>>)
          /\ region_id_map[<<p[1] + 1, p[2] + 1>>] = region_id_map[p]

-----------------------------------------------------------------------------
(* Adjacency detection: the door and window pass *)

\* The door and window pass is over.
IconPassDone == pc \in {"idle", "penetrating", "extending", "segment", "done"}

\* The 4-connected components of the door (v = 1) or window (v = 2) pixels.
IconComps(v) == {Grow({p}, IconMask(v)) : p \in IconMask(v)}

\* The positive room ids on the one-pixel ring around a component.
RingIds(c) ==
    {region_id_map[q] : q \in {n \in AllPixels \ c : \E p \in c : Adj4(p, n)}} \ {0}

\* The components of one kind whose ring holds exactly the two rooms of the pair.
Openings(k, v) == {c \in IconComps(v) : RingIds(c) = {k[1], k[2]}}

RECURSIVE SumSizes(_)
SumSizes(S) ==
    IF S = {} THEN 0
    ELSE LET c == CHOOSE x \in S : TRUE IN Cardinality(c) + SumSizes(S \ {c})

RoomPairs == {k \in (1 .. current_id) \X (1 .. current_id) : k[1] < k[2]}

EdgeOf(k) == IF k \in DOMAIN edges THEN edges[k] ELSE NewEdge

\* C3: after the door and window pass, the door/window part of every pair is
\* what the components with exactly two rooms on their ring give: one count
\* and the pixel count per such component, and its type; a component with no,
\* one, or three or more rooms on its ring has changed no edge.
DoorWindowPass ==
    IconPassDone =>
        \A k \in RoomPairs \cup DOMAIN edges :
            LET doors   == Openings(k, 1)
                windows == Openings(k, 2)
            IN /\ EdgeOf(k).num_door_window = Cardinality(doors) + Cardinality(windows)
               /\ EdgeOf(k).area_door_window = SumSizes(doors \cup windows)
               /\ ("door" \in EdgeOf(k).connection_types) = (doors # {})
               /\ ("window" \in EdgeOf(k).connection_types) = (windows # {})

\* A component between two rooms has been recorded, and one touching three
\* rooms has been looked at.
DoorWindowWitness ==
    /\ pc = "done"
    /\ \E i, j \in DOMAIN icon_log :
          /\ Cardinality(icon_log[i].ids) = 2
          /\ Cardinality(icon_log[j].ids) >= 3
    /\ \E k \in DOMAIN edges : edges[k].num_door_window = 1

-----------------------------------------------------------------------------
(* Adjacency detection: the wall pass *)

ExcludedNeighbour(pixels) ==
    \E p \in pixels : \E d \in Cross :
        InBounds(Plus(p, d)) /\ wall_label_array[Plus(p, d)] \in {0, 1, 8, 50}

\* C4: a wall segment with a pixel that has a 4-neighbour labelled 0, 1, 8 or
\* 50 leaves the edge map as it is when it is processed, and no segment that an
\* edge holds has such a pixel.
ExteriorExclusion ==
    /\ [][(pc = "segment" /\ ExcludedNeighbour(Range(wall_pixels_segment)))
            => edges' = edges]_vars
    /\ [](\A lab \in DOMAIN owner : ~ExcludedNeighbour(seg_log[owner[lab]].pixels))

\* A resolved segment next to an excluded pixel has been processed.
ExteriorWitness ==
    /\ pc = "done"
    /\ \E i \in DOMAIN seg_log : ExcludedNeighbour(seg_log[i].pixels)

WallSet == {p \in AllPixels : wall_label_array[p] = 2}

\* The wall blobs: the 4-connected components of the wall pixels.
Blobs == {Grow({p}, WallSet) : p \in WallSet}

SameBlob(p, q) == q \in Grow({p}, WallSet)

\* The rooms with a pixel next to the blob.
RoomsAround(blob) ==
    {region_id_map[q] : q \in {n \in AllPixels : \E p \in blob : Adj4(p, n)}} \ {0}

\* The image has one wall blob, and it borders three rooms or more.
JunctionPlan ==
    /\ Cardinality(Blobs) = 1
    /\ \A blob \in Blobs : Cardinality(RoomsAround(blob)) >= 3

\* The resolved segments that were not excluded.
Kept == {i \in DOMAIN seg_log : seg_log[i].outcome # "excluded"}

MinKeptLen == CHOOSE n \in {seg_log[i].len : i \in Kept} : \A i \in Kept : n <= seg_log[i].len

WallPairs == {k \in DOMAIN edges : "wall" \in edges[k].connection_types}

\* The input is one of the T-junction plans.
IsTJunction ==
    \E len \in 3 .. MaxStem : \E b \in 2 .. len - 1 : \E across \in BOOLEAN :
        LET g == JunctionPlanOf(len, b, across) IN
        h = g.h /\ w = g.w /\ wall_label_array = g.label /\ icon_array = g.icon

\* C5: when the one wall blob of the image borders three rooms, in every
\* T-junction plan and wherever some segment of the blob was resolved and not
\* excluded, the returned edges hold a wall connection for exactly one pair,
\* with one segment, and it is a pair whose segment has the smallest pixel
\* count among the segments that were not excluded.
JunctionTieBreak ==
    (pc = "done" /\ JunctionPlan /\ (IsTJunction \/ Kept # {})) =>
        \E k \in WallPairs :
            /\ WallPairs = {k}
            /\ edges[k].num_wall = 1
            /\ edges[k].area_wall = MinKeptLen
            /\ \E i \in Kept : seg_log[i].pair = k /\ seg_log[i].len = MinKeptLen

\* A junction of three rooms where segments of two different pairs and of
\* different lengths were resolved, the smaller one after the larger.
JunctionWitness ==
    /\ pc = "done"
    /\ IsTJunction
    /\ JunctionPlan
    /\ \E i, j \in Kept :
          /\ i < j
          /\ seg_log[i].pair # seg_log[j].pair
          /\ seg_log[j].len < seg_log[i].len
    /\ Cardinality(WallPairs) = 1

\* The segments an edge holds now: those the map entries stand for.
Attributed == {owner[lab] : lab \in DOMAIN owner}

\* C6: the tie-break is scoped to one wall blob: a segment is discarded, or
\* replaces a recorded one, only against a segment of its own blob, so every
\* blob with a resolved segment that was not excluded has a wall connection on
\* return.
BlobScopedTieBreak ==
    /\ \A i \in DOMAIN seg_log :
          seg_log[i].against # 0 =>
              SameBlob(seg_log[i].base, seg_log[seg_log[i].against].base)
    /\ pc = "done" =>
          \A i \in Kept :
              \E j \in Attributed :
                  /\ SameBlob(seg_log[i].base, seg_log[j].base)
                  /\ seg_log[j].pair \in WallPairs

\* C7: every key of edges is a pair of room ids with the smaller id first.
CanonicalKeys ==
    \A k \in DOMAIN edges :
        /\ k[1] < k[2]
        /\ k[1] \in 1 .. current_id
        /\ k[2] \in 1 .. current_id

\* Both passes have made an entry, for different pairs.
CanonicalWitness ==
    /\ pc = "done"
    /\ \E k1, k2 \in DOMAIN edges :
          /\ k1 # k2
          /\ "wall" \in edges[k1].connection_types
          /\ "door" \in edges[k2].connection_types

\* The pair has an opening recorded by the door and window pass.
HasOpening(k) == Openings(k, 1) \cup Openings(k, 2) # {}

\* The pair holds a wall segment that was recorded and not taken back.
HasWall(k) == \E i \in Attributed : seg_log[i].pair = k

\* C8: on return a pair has an entry exactly if it holds a door, a window or a
\* retained wall connection, and every entry has a type and a count.
EdgeIffConnection ==
    pc = "done" =>
        /\ \A k \in DOMAIN edges :
              /\ edges[k].connection_types # {}
              /\ edges[k].num_door_window + edges[k].num_wall >= 1
              /\ HasOpening(k) \/ HasWall(k)
        /\ \A k \in RoomPairs : (HasOpening(k) \/ HasWall(k)) => k \in DOMAIN edges

\* A recorded wall segment was taken back and its pair has no entry any more,
\* while another pair has one.
EdgeWitness ==
    /\ pc = "done"
    /\ DOMAIN edges # {}
    /\ \E i \in DOMAIN seg_log :
          /\ seg_log[i].outcome = "recorded"
          /\ seg_log[i].pair \notin DOMAIN edges

RECURSIVE SumLens(_)
SumLens(S) ==
    IF S = {} THEN 0
    ELSE LET i == CHOOSE x \in S : TRUE IN seg_log[i].len + SumLens(S \ {i})

\* C9: throughout the wall pass and on return, num_wall of a pair is the number
\* of segments it holds and area_wall the sum of their pixel counts,
\* area_door_window is the sum of the pixel counts of its openings, and no
\* value is negative.
AreaConservation ==
    IconPassDone =>
        \A k \in RoomPairs \cup DOMAIN edges :
            LET held == {i \in Attributed : seg_log[i].pair = k} IN
            /\ EdgeOf(k).num_wall = Cardinality(held)
            /\ EdgeOf(k).area_wall = SumLens(held)
            /\ EdgeOf(k).area_door_window = SumSizes(Openings(k, 1) \cup Openings(k, 2))
            /\ EdgeOf(k).num_wall >= 0
            /\ EdgeOf(k).area_wall >= 0
            /\ EdgeOf(k).num_door_window >= 0
            /\ EdgeOf(k).area_door_window >= 0

\* A wall segment of a pair was taken back and the pair keeps its door.
AreaWitness ==
    \E k \in DOMAIN edges :
        /\ edges[k].num_wall = 0
        /\ edges[k].area_door_window >= 2
        /\ \E i \in DOMAIN seg_log :
              seg_log[i].pair = k /\ seg_log[i].outcome = "recorded" /\ seg_log[i].len >= 2

\* The input is a two-room plan with a partition wall of the given length.
IsTwoRoomPlan(len) ==
    \E rw \in 1 .. MaxRoomWidth : \E framed \in BOOLEAN : \E across \in BOOLEAN :
        LET g == TwoRoomPlan(len, rw, framed, across) IN
        h = g.h /\ w = g.w /\ wall_label_array = g.label /\ icon_array = g.icon

IsDoorPlan(len, under) ==
    \E rw \in 1 .. MaxRoomWidth : \E framed \in BOOLEAN : \E across \in BOOLEAN :
        LET g == DoorPlan(len, rw, framed, across, under) IN
        h = g.h /\ w = g.w /\ wall_label_array = g.label /\ icon_array = g.icon

IsSingleRoomPlan(n) ==
    LET g == SingleRoomPlan(n) IN
    h = g.h /\ w = g.w /\ wall_label_array = g.label /\ icon_array = g.icon

\* C12: the rooms list returned by extract_rooms has one entry per id 1 .. N,
\* in increasing id order, each with the number of pixels that carry its id as
\* area; a single room enclosed by wall gives one entry whose area is the
\* number of eligible pixels.
RoomsList ==
    Segmented =>
        /\ Len(rooms) = current_id
        /\ UsedIds = 1 .. Len(rooms)
        /\ \A i \in DOMAIN rooms :
              /\ rooms[i].id = i
              /\ rooms[i].area = Cardinality({p \in AllPixels : region_id_map[p] = i})
              /\ rooms[i].area >= 1
        /\ \A n \in 1 .. MaxRoomSide :
              IsSingleRoomPlan(n) =>
                  /\ Len(rooms) = 1
                  /\ rooms[1].area = Cardinality(EligibleSet)
                  /\ rooms[1].area = n * n

\* The 10 x 10 grid with one room has been segmented.
RoomsListWitness ==
    /\ Segmented
    /\ IsSingleRoomPlan(8)
    /\ h = 10
    /\ rooms[1].area = 64

\* The pixels of room i that carry category c.
PixelsOf(i, c) == {p \in AllPixels : region_id_map[p] = i /\ wall_label_array[p] = c}

\* The categories with the highest pixel count in room i.
TopCategories(i) ==
    LET present == {wall_label_array[p] : p \in {q \in AllPixels : region_id_map[q] = i}}
    IN {c \in present \ {0, 1, 2, 8, 50} :
          \A d \in present \ {0, 1, 2, 8, 50} :
             Cardinality(PixelsOf(i, d)) <= Cardinality(PixelsOf(i, c))}

Recognized == {3, 4, 5, 6, 7, 9, 10}

\* C13: the room_type of every room is the name of the category with the
\* highest pixel count among the room's pixels, the smallest category code
\* winning a tie, and "Other" when that category is none of 3, 4, 5, 6, 7, 9, 10.
RoomTypeRule ==
    Segmented =>
        \A i \in DOMAIN rooms :
            /\ TopCategories(i) # {}
            /\ LET best == CHOOSE c \in TopCategories(i) : \A d \in TopCategories(i) : c <= d
               IN rooms[i].room_type =
                    (IF best \in Recognized THEN category_to_room[best] ELSE "Other")

\* Rooms with a tie between two categories, one where the winner is recognized
\* and one where a category that is not recognized has the most pixels.
RoomTypeWitness ==
    /\ Segmented
    /\ \E i \in DOMAIN rooms :
          /\ TopCategories(i) = {3, 4}
          /\ rooms[i].room_type = "Kitchen"
          /\ wall_label_array[<<0, 0>>] = 4

\* C14: a call of detect_adjacency with grids of different shapes fails with
\* an error and returns no edges map: it never completes normally.
MismatchFails == ~ShapesAgree => pc # "done"

\* C15: for a label grid without a room-eligible pixel, whatever walls, doors
\* and windows it holds, extract_rooms returns a map of zeros and no rooms,
\* and detect_adjacency goes through without an error and with no edge.
NoRoomsNoEdges ==
    (EligibleSet = {} /\ ShapesAgree) =>
        /\ edges = NoEdges
        /\ pc # "error"
        /\ current_id = 0
        /\ Segmented => (rooms = <<>> /\ \A p \in AllPixels : region_id_map[p] = 0)

\* A grid without a room, with a wall and a door, has gone through both passes.
NoRoomsWitness ==
    /\ pc = "done"
    /\ EligibleSet = {}
    /\ ShapesAgree
    /\ \E p \in AllPixels : wall_label_array[p] = 2
    /\ \E i \in DOMAIN icon_log : icon_log[i].type = "door"

Supersedes ==
    /\ pc = "segment"
    /\ ~exclude_segment
    /\ seg_label \in DOMAIN segment_label_map
    /\ segment_length < segment_label_map[seg_label][2]

\* C17: when a smaller segment supersedes the wall attribution of a pair, that
\* pair loses 1 of num_wall and the superseded length of area_wall, loses
\* 'wall' when num_wall is then 0, and loses its entry exactly if no door or
\* window type is left; the superseding pair gains 1 of num_wall, its length
\* of area_wall, and 'wall'; no other entry changes.
SupersedeRollback ==
    [][Supersedes =>
        LET prev_pair == segment_label_map[seg_label][1]
            prev_len  == segment_label_map[seg_label][2]
            old       == edges[prev_pair]
            emptied   == old.num_wall = 1 /\ old.connection_types \ {"wall"} = {}
            new       == EdgeOf(pair)
        IN /\ \A k \in (DOMAIN edges \cup DOMAIN edges') \ {prev_pair, pair} :
                 k \in DOMAIN edges /\ k \in DOMAIN edges' /\ edges'[k] = edges[k]
           /\ pair # prev_pair =>
                 /\ (prev_pair \notin DOMAIN edges') = emptied
                 /\ prev_pair \in DOMAIN edges' =>
                       edges'[prev_pair] =
                         [old EXCEPT !.num_wall = @ - 1,
                                     !.area_wall = @ - prev_len,
                                     !.connection_types =
                                        IF old.num_wall = 1 THEN @ \ {"wall"} ELSE @]
                 /\ pair \in DOMAIN edges'
                 /\ edges'[pair] =
                       [new EXCEPT !.num_wall = @ + 1,
                                   !.area_wall = @ + segment_length,
                                   !.connection_types = @ \cup {"wall"}]
           /\ pair = prev_pair =>
                 /\ pair \in DOMAIN edges'
                 /\ edges'[pair] =
                       [old EXCEPT !.area_wall = @ - prev_len + segment_length]
                 /\ "wall" \in edges'[pair].connection_types]_vars

\* A segment has superseded the segment of another pair, which keeps its entry
\* for its door and has lost 'wall'.
SupersedeWitness ==
    \E j \in DOMAIN seg_log :
        /\ seg_log[j].outcome = "recorded"
        /\ seg_log[j].against # 0
        /\ LET prev == seg_log[seg_log[j].against].pair IN
              /\ prev # seg_log[j].pair
              /\ prev \in DOMAIN edges
              /\ edges[prev].connection_types = {"door"}
              /\ edges[prev].num_wall = 0
              /\ edges[prev].area_wall = 0

\* A scan is under way.
Scanning == pc \in {"penetrating", "extending"}

\* The scan at hand ends without a room met.
Aborts == pc = "penetrating" /\ pc' = "idle"

\* The scan at hand has met another room.
Resolves == pc = "penetrating" /\ pc' = "extending"

\* C18 as stated: a scan is aborted exactly when it reaches the image boundary.
AbortOnlyAtBoundary == [][Aborts => ~InBounds(cxy)]_vars

\* C18: a directed scan goes idle -> penetrating -> aborted or resolved, and
\* only a resolved scan goes on to extending and then to its segment being
\* processed; it is aborted exactly when it leaves the wall without meeting a
\* room other than its own: past the image boundary, or at a pixel that is no
\* wall and belongs to no room or to the room it came from; an aborted scan
\* changes no edge; and every scan leaves penetrating and extending.
ScanStateMachine ==
    /\ [][/\ pc = "idle" => pc' \in {"idle", "penetrating", "done"}
          /\ pc = "penetrating" => pc' \in {"penetrating", "idle", "extending"}
          /\ pc = "extending" => pc' \in {"extending", "segment"}
          /\ pc = "segment" => pc' = "idle"
          /\ pc' = "extending" => pc \in {"penetrating", "extending"}
          /\ pc' = "segment" => pc = "extending"
          /\ pc = "penetrating" =>
                LET left  == ~InBounds(cxy)
                    other == InBounds(cxy) /\ wall_label_array[cxy] # 2
                             /\ region_id_map[cxy] \notin {0, region_ids[rix]}
                    wall  == InBounds(cxy) /\ wall_label_array[cxy] = 2
                IN /\ Aborts <=> (~wall /\ ~other)
                   /\ Resolves <=> other
                   /\ left => Aborts
                   /\ Resolves => encountered_room' = region_id_map[cxy]
          /\ Aborts => /\ edges' = edges
                       /\ segment_label_map' = segment_label_map
                       /\ visited_wall' = visited_wall]_vars
    /\ Scanning ~> (pc = "idle")

\* A scan that crossed a wall is about to end inside the image, at a pixel of
\* the room it came from.
ScanWitness ==
    /\ pc = "penetrating"
    /\ wall_pixels_segment # <<>>
    /\ InBounds(cxy)
    /\ wall_label_array[cxy] # 2
    /\ region_id_map[cxy] = region_ids[rix]

\* The pixels the penetration has crossed, the anchor being the last of them.
Penetrated == {wall_pixels_segment[i] : i \in 1 .. t - 1}

\* The pixels the extension has absorbed.
Extended == segment_pixels \ Penetrated

\* The two directions across the scan direction.
Perp(d) == IF d[1] = 0 THEN {<<1, 0>>, <<-1, 0>>} ELSE {<<0, 1>>, <<0, -1>>}

\* The pixel k steps from the anchor in direction o.
Along(o, k) == <<last_wall_pixel[1] + k * o[1], last_wall_pixel[2] + k * o[2]>>

\* A wall pixel inside the image with the room of the scan on the side the scan
\* came from and the room met on the other side.
Flanked(p) ==
    LET a == <<p[1] - dxy[1], p[2] - dxy[2]>>
        b == Plus(p, dxy)
    IN /\ InBounds(p) /\ wall_label_array[p] = 2
       /\ InBounds(a) /\ region_id_map[a] = region_ids[rix]
       /\ InBounds(b) /\ region_id_map[b] = encountered_room

\* C19: when the extension of a resolved scan is over, the segment is the
\* pixels of the penetration and, in each of the two directions across it, the
\* unbroken run of pixels next to the anchor that are wall pixels inside the
\* image, flanked by the room of the scan and the room met, and not visited
\* before: every absorbed pixel is in such a run, and the pixel after the end
\* of each run is not absorbable; for a straight wall one pixel thick between
\* two rooms the segment is the whole wall.
ExtensionRule ==
    pc = "segment" =>
        /\ Penetrated # {}
        /\ last_wall_pixel \in Penetrated
        /\ \A p \in Extended :
              \E o \in Perp(dxy) : \E k \in 1 .. h + w :
                  /\ p = Along(o, k)
                  /\ \A j \in 1 .. k : Along(o, j) \in Extended /\ Flanked(Along(o, j))
        /\ \A o \in Perp(dxy) :
              LET k == Cardinality({p \in Extended : \E j \in 1 .. h + w : p = Along(o, j)})
                  n == Along(o, k + 1)
              IN n \notin segment_pixels /\ (~Flanked(n) \/ n \in visited_wall)
        /\ \A len \in 1 .. MaxWallLen :
              IsTwoRoomPlan(len) =>
                  segment_length = len /\ \A p \in segment_pixels : Flanked(p)

\* The extension of a scan that crossed one wall pixel has absorbed three
\* pixels or more of the wall.
ExtensionWitness ==
    /\ pc = "segment"
    /\ Cardinality(Penetrated) = 1
    /\ Cardinality(Extended) >= 3

\* The wall pass is under way.
InWallPass == pc \in {"idle", "penetrating", "extending", "segment"}

\* C20 as stated: no wall pixel is the start of a directed scan twice.
NoStartTwice == \A i, j \in DOMAIN starts : i # j => starts[i] # starts[j]

\* C20: every wall pixel absorbed into a segment, by penetration or by
\* extension, is marked visited; no mark is cleared during the call; and no
\* directed scan starts at a marked pixel, so none starts at a pixel that a
\* resolved segment has absorbed.
VisitedRule ==
    /\ [](InWallPass =>
            /\ \A i \in DOMAIN seg_log : seg_log[i].pixels \subseteq visited_wall
            /\ pc = "segment" => segment_pixels \subseteq visited_wall
            /\ pc = "extending" => Range(wall_pixels_segment) \subseteq visited_wall)
    /\ [][/\ InWallPass => visited_wall \subseteq visited_wall'
          /\ (pc = "idle" /\ pc' = "penetrating") =>
                LET s == starts'[Len(starts')] IN
                /\ Len(starts') = Len(starts) + 1
                /\ s = Plus(boundary_coords[bix'], scan_dirs[dix'])
                /\ wall_label_array[s] = 2
                /\ s \notin visited_wall
                /\ \A i \in DOMAIN seg_log : s \notin seg_log[i].pixels]_vars

\* A wall pixel has been the start of two scans that were aborted, in a call
\* that has resolved and extended a segment as well.
VisitedWitness ==
    /\ pc = "done"
    /\ \E i, j \in DOMAIN starts : i # j /\ starts[i] = starts[j]
    /\ \E i \in DOMAIN seg_log : seg_log[i].len >= 2
    /\ \A i \in DOMAIN seg_log : seg_log[i].pixels \subseteq visited_wall

-----------------------------------------------------------------------------
(* The order of the flood-fill worklist *)

\* C21: whatever pending pixel the flood fill takes next, first in, last in or
\* any other, extract_rooms returns the region_id_map and the rooms list that
\* it returns with the stack of the source.
OrderIndependence ==
    (run = 2 /\ pc = "label_icons") =>
        /\ region_id_map = first.region_id_map
        /\ rooms = first.rooms

\* A call that took pixels from the front and from the middle of the worklist
\* has returned two rooms or more.
OrderWitness ==
    /\ run = 2
    /\ pc = "label_icons"
    /\ {"first", "inner"} \subseteq picks
    /\ Len(rooms) >= 2
    /\ rooms = first.rooms

-----------------------------------------------------------------------------
(* The two passes and the edge map *)

\* What the door / window pass has written for the pair k; a pair without an
\* entry has nothing.
DoorWindowPart(e, k) ==
    IF k \in DOMAIN e
    THEN [types |-> e[k].connection_types \cap {"door", "window"},
          num   |-> e[k].num_door_window,
          area  |-> e[k].area_door_window]
    ELSE [types |-> {}, num |-> 0, area |-> 0]

\* C22: no step of the wall pass, a wall detection or a rollback, changes
\* num_door_window, area_door_window or the door and window members of
\* connection_types of any pair, and none removes an entry that has a door or
\* a window.
DoorWindowFrame ==
    [][InWallPass =>
         \A k \in DOMAIN edges \cup DOMAIN edges' :
            /\ DoorWindowPart(edges', k) = DoorWindowPart(edges, k)
            /\ (k \in DOMAIN edges /\ DoorWindowPart(edges, k).types # {}) =>
                  k \in DOMAIN edges']_vars

\* The wall pass is over; it has recorded a wall for a pair with a door and
\* taken it back for a segment of another pair, and has recorded a wall for a
\* pair without an opening; the pair with the door still has what the door
\* pass gave it.
DoorWindowFrameWitness ==
    /\ pc = "done"
    /\ \E j \in DOMAIN seg_log :
          /\ seg_log[j].outcome = "recorded"
          /\ seg_log[j].against # 0
          /\ LET prev == seg_log[seg_log[j].against].pair
                 now  == seg_log[j].pair
             IN /\ prev # now
                /\ prev \in DOMAIN edges
                /\ now \in DOMAIN edges
                /\ DoorWindowPart(edges, prev) =
                      [types |-> {"door"},
                       num   |-> Cardinality(Openings(prev, 1)),
                       area  |-> SumSizes(Openings(prev, 1))]
                /\ edges[prev].num_door_window >= 1
                /\ "wall" \in edges[now].connection_types

\* detect_adjacency is running or has returned.
InDetect == pc \in {"label_icons", "icon_comp", "idle", "penetrating", "extending",
                    "segment", "done"}

\* C23: between the steps of detect_adjacency and at its end, every entry has
\* 'wall' exactly if num_wall >= 1, exactly if area_wall >= 1, and has 'door'
\* or 'window' exactly if num_door_window >= 1.
TypesAgreeWithCounters ==
    InDetect =>
        \A k \in DOMAIN edges :
            /\ ("wall" \in edges[k].connection_types) = (edges[k].num_wall >= 1)
            /\ (edges[k].num_wall >= 1) = (edges[k].area_wall >= 1)
            /\ (edges[k].connection_types \cap {"door", "window"} # {})
                  = (edges[k].num_door_window >= 1)

\* The wall pass is under way after a rollback: one entry has an opening and
\* its wall counters back at 0, another has a wall and no opening.
TypesAgreeWitness ==
    /\ InWallPass
    /\ \E k1, k2 \in DOMAIN edges :
          /\ edges[k1].connection_types \cap {"door", "window"} # {}
          /\ edges[k1].num_door_window >= 1
          /\ edges[k1].num_wall = 0
          /\ edges[k1].area_wall = 0
          /\ \E i \in DOMAIN seg_log : seg_log[i].pair = k1 /\ seg_log[i].outcome = "recorded"
          /\ edges[k2].connection_types = {"wall"}
          /\ edges[k2].num_wall = 1
          /\ edges[k2].area_wall >= 1

-----------------------------------------------------------------------------
(* The breadth-first variant of the wall pass *)

\* A wall pixel whose 4-neighbours are all inside the image and wall pixels or
\* pixels of the two given rooms.
Between(p, a, b) ==
    /\ InBounds(p)
    /\ IsWall(p)
    /\ \A d \in Cross :
          LET q == Plus(p, d) IN
          /\ InBounds(q)
          /\ IsWall(q) \/ region_id_map[q] \in {a, b}

RECURSIVE SumAreaWall(_)
SumAreaWall(K) ==
    IF K = {} THEN 0
    ELSE LET k == CHOOSE x \in K : TRUE IN edges[k].area_wall + SumAreaWall(K \ {k})

\* C24: in the breadth-first variant every recorded segment of a pair
\* (rid, other) is made of wall pixels that have no 4-neighbour outside the
\* image or outside every room and the wall, and whose non-wall neighbours are
\* of rid or of other; no wall pixel is in two recorded segments; the sum of
\* area_wall over the edges is at most the number of wall pixels.
BfsSegments ==
    pc \in {"idle", "bfs", "done"} =>
        /\ \A i \in DOMAIN seg_log :
              /\ seg_log[i].other # 0
              /\ seg_log[i].other # seg_log[i].rid
              /\ seg_log[i].pixels # {}
              /\ \A p \in seg_log[i].pixels : Between(p, seg_log[i].rid, seg_log[i].other)
        /\ \A i, j \in DOMAIN seg_log :
              i # j => seg_log[i].pixels \cap seg_log[j].pixels = {}
        /\ SumAreaWall(DOMAIN edges) = SumLens(DOMAIN seg_log)
        /\ SumAreaWall(DOMAIN edges) <= Cardinality(WallSet)

\* The breadth-first variant has returned two edges with a wall, one of them
\* for a segment of two pixels or more.
BfsSegmentsWitness ==
    /\ pc = "done"
    /\ dq = <<>>
    /\ Len(seg_log) >= 2
    /\ \E i, j \in DOMAIN seg_log :
          /\ seg_log[i].pair # seg_log[j].pair
          /\ seg_log[i].len >= 2
          /\ edges[seg_log[i].pair].area_wall >= 2
          /\ edges[seg_log[j].pair].num_wall >= 1

-----------------------------------------------------------------------------
(* Termination *)

NoRepeat(q) == \A i, j \in DOMAIN q : i # j => q[i] # q[j]

\* The pixels that get an id in the step.
Labelled == {p \in AllPixels : region_id_map[p] = 0 /\ region_id_map'[p] # 0}

\* Flood fill: a step pushes exactly the pixels it gives an id, they are
\* eligible and had none, and an id once given stays.
FillOnce ==
    pc \in {"scan", "fill"} =>
        /\ \A p \in AllPixels : region_id_map[p] # 0 => region_id_map'[p] = region_id_map[p]
        /\ \A p \in Labelled : Eligible(p) /\ region_id_map'[p] = current_id'
        /\ pc' \in {"scan", "fill"} =>
              /\ Range(stack') \ Range(stack) = Labelled
              /\ Len(stack') = Len(stack) - (IF pc = "fill" THEN 1 ELSE 0)
                                + Cardinality(Labelled)

\* Penetration: a step that stays in the loop moves one pixel on, and the
\* loop is left at a pixel outside the image or at a pixel that is no wall.
ScanAdvances ==
    pc = "penetrating" =>
        /\ pc' = "penetrating" => t' = t + 1 /\ wall_pixels_segment' = Append(wall_pixels_segment, cxy)
        /\ pc' # "penetrating" => ~InBounds(cxy) \/ ~IsWall(cxy)

\* Extension: a pixel is absorbed only if it is a wall pixel without a mark,
\* and it is marked.
ExtendOnce ==
    (pc = "extending" /\ wall_pixels_segment' # wall_pixels_segment) =>
        /\ wall_pixels_segment' = Append(wall_pixels_segment, nxt)
        /\ IsWall(nxt)
        /\ nxt \notin visited_wall
        /\ nxt \notin Range(wall_pixels_segment)
        /\ nxt \in visited_wall'

\* Breadth-first search: a step takes one pixel off the queue and puts on it
\* only wall pixels without a mark, which it marks; marks stay.
BfsOnce ==
    (pc = "bfs" /\ dq # <<>>) =>
        /\ wall_segment_pixels' = Append(wall_segment_pixels, Head(dq))
        /\ Len(dq') >= Len(dq) - 1
        /\ LET new == SubSeq(dq', Len(dq), Len(dq')) IN
              /\ dq' = Tail(dq) \o new
              /\ NoRepeat(new)
              /\ \A i \in DOMAIN new : IsWall(new[i]) /\ new[i] \notin visited_wall
              /\ visited_wall' = visited_wall \cup Range(new)

\* The position of a scan is inside the image or one step outside it, after
\* pixels inside it; no worklist and no segment holds a pixel twice.
LoopsBounded ==
    /\ pc \in {"scan", "fill"} =>
          /\ NoRepeat(stack)
          /\ \A i \in DOMAIN stack : region_id_map[stack[i]] = current_id
    /\ pc = "penetrating" =>
          /\ t >= 1
          /\ t <= (IF h > w THEN h ELSE w)
          /\ InBounds(<<cxy[1] - dxy[1], cxy[2] - dxy[2]>>)
          /\ Len(wall_pixels_segment) = t - 1
    /\ pc \in {"extending", "segment"} => NoRepeat(wall_pixels_segment)
    /\ pc = "bfs" =>
          /\ NoRepeat(wall_segment_pixels \o dq)
          /\ Range(wall_segment_pixels \o dq) \subseteq visited_wall \cap WallSet

\* C25: on every grid both programs return; in the flood fill each eligible
\* pixel gets its id and is pushed at most once; a penetration scan moves one
\* pixel per step and ends inside the image or one step outside it; the
\* extension and the breadth-first search take each wall pixel at most once.
Termination ==
    /\ <>Returned
    /\ []LoopsBounded
    /\ [][FillOnce /\ ScanAdvances /\ ExtendOnce /\ BfsOnce]_vars

\* Both programs have returned on an image with two rooms or more: the
\* directed-scan variant an edge with a wall of two pixels or more, the
\* breadth-first variant a segment of two pixels or more.
TerminationWitness ==
    /\ Returned
    /\ Len(rooms) >= 2
    /\ \E k \in DOMAIN first.edges : first.edges[k].area_wall >= 2
    /\ \E i \in DOMAIN seg_log : seg_log[i].len >= 2
    /\ \E k \in DOMAIN edges : edges[k].num_wall >= 1

=============================================================================
